---- MODULE Spec2Model ----
(***************************************************************************)
(* A model of A51.c, the modified A5/1 keystream generator.                *)
(*                                                                         *)
(* A C `word' (unsigned long, 64 bits on the LP64 targets the 64-bit key   *)
(* literal of test() needs) is modelled as the set of the positions of its *)
(* 1 bits, a subset of 0..63: & is intersection, | is union, ^ is the      *)
(* symmetric difference, << and >> move the positions and drop what leaves *)
(* the word.  Nothing is lost and nothing overflows.                       *)
(***************************************************************************)
EXTENDS Integers, Sequences, FiniteSets, TLC

\* ---------------------------------------------------------------- words --
WordBits == 64
Bits == 0 .. (WordBits - 1)

And(x, y) == x \cap y
Or(x, y) == x \cup y
Xor(x, y) == (x \ y) \cup (y \ x)
Shl(x, k) == {b + k : b \in x} \cap Bits
Shr(x, k) == {b - k : b \in {c \in x : c >= k}}

\* (w != 0) as the int 0 or 1
NZ(w) == IF w # {} THEN 1 ELSE 0
\* (int) of a word that is 0 or 1
BitVal(w) == IF 0 \in w THEN 1 ELSE 0
\* assignment of a word to a byte keeps the low 8 bits
ToByte(w) == w \cap (0 .. 7)

\* a hexadecimal literal, most significant digit first
NibbleBits(d) == {j \in 0 .. 3 : (d \div (2 ^ j)) % 2 = 1}
FromHex(ds) == UNION {{4 * (Len(ds) - p) + j : j \in NibbleBits(ds[p])} : p \in 1 .. Len(ds)}

\* ------------------------------------------------------------ constants --
R1MASK == 0 .. 18
R2MASK == 0 .. 21
R3MASK == 0 .. 22

R1MID == {8}
R2MID_bit11 == {11}
R2MID == {10}
R3MID == {10}

R1TAPS == {18, 17, 16, 13}
R2TAPS == {21, 20}
R3TAPS_bit8 == {22, 21, 20, 8}
R3TAPS == {22, 21, 20, 7}

R1SHIFT == 64
R2SHIFT == 45
R3SHIFT == 23

R1SIZE == 19
R2SIZE == 22
R3SIZE == 23

\* run: number of bytes zeroed is 113/8 + 1, number of bits generated
ZeroLast == 113 \div 8
RunBits == 6
\* test: byte AtoB[15], BtoA[15]
BufLen == 15
\* test: the key and the frame number
TestKey == FromHex(<<9, 1, 1, 10, 2, 11, 3, 12, 4, 13, 5, 14, 6, 15, 0, 15>>)
TestFrame == FromHex(<<1, 3, 4>>)

\* ---------------------------------------------------------------- bounds --
MaxOps == 7
MaxGenOps == 3

\* the keys, frame numbers and bit counts the operations are called with
Keys ==
    { TestKey, {}, Bits,
      FromHex(<<1, 2, 2, 3, 4, 5, 6, 7, 8, 9, 10, 11, 12, 13, 14, 15>>),
      {63, 45, 44, 23, 22, 0}, {53, 33}, {53, 10}, {33, 10} }
GenKeys ==
    { TestKey, {}, {63, 45, 44, 23, 22, 0},
      FromHex(<<1, 2, 2, 3, 4, 5, 6, 7, 8, 9, 10, 11, 12, 13, 14, 15>>) }
Frames == { TestFrame, 0 .. 21 }
GenLens == { 0, 6, 114 }
ParityChunks == { {0}, {1}, {7, 8}, {15}, {16}, {23, 24, 25}, {31} }
ParityInputs == { 0 .. 31 } \cup { UNION S : S \in SUBSET ParityChunks }

\* ------------------------------------------------------------- functions --
parity_no16(x) ==
    LET x2 == Xor(x, Shr(x, 8))
        x3 == Xor(x2, Shr(x2, 4))
        x4 == Xor(x3, Shr(x3, 2))
        x5 == Xor(x4, Shr(x4, 1))
    IN  And(x5, {0})

parity(x) ==
    LET x1 == Xor(x, Shr(x, 16))
        x2 == Xor(x1, Shr(x1, 8))
        x3 == Xor(x2, Shr(x2, 4))
        x4 == Xor(x3, Shr(x3, 2))
        x5 == Xor(x4, Shr(x4, 1))
    IN  And(x5, {0})

clockone_nomask(reg, mask, taps) ==
    LET t == And(reg, taps)
        r == Shl(reg, 1)
    IN  Or(r, parity(t))

clockone_inverted(reg, mask, taps) ==
    LET t == And(reg, taps)
        r == And(Shl(reg, 1), mask)
    IN  Or(r, Xor(parity(t), {0}))

clockone(reg, mask, taps) ==
    LET t == And(reg, taps)
        r == And(Shl(reg, 1), mask)
    IN  Or(r, parity(t))

majority_all(w1, w2, w3) ==
    LET sum == NZ(w1) + NZ(w2) + NZ(w3)
    IN  IF sum >= 3 THEN 1 ELSE 0

majority(w1, w2, w3) ==
    LET sum == NZ(w1) + NZ(w2) + NZ(w3)
    IN  IF sum >= 2 THEN 1 ELSE 0

clocked_noForce(R, allP) ==
    LET maj == majority(And(R.R1, R1MID), And(R.R2, R2MID), And(R.R3, R3MID))
    IN  {l \in 1 .. 3 :
            \/ /\ l = 1
               /\ NZ(And(R.R1, R1MID)) = maj
            \/ /\ l = 2
               /\ NZ(And(R.R2, R2MID)) = maj
            \/ /\ l = 3
               /\ NZ(And(R.R3, R3MID)) = maj}

\* the lanes whose `if' in clock is taken; each condition reads a register
\* that no earlier assignment of the same call has changed
clocked(R, allP) ==
    LET maj == majority(And(R.R1, R1MID), And(R.R2, R2MID), And(R.R3, R3MID))
    IN  {l \in 1 .. 3 :
            \/ allP # 0
            \/ /\ l = 1
               /\ NZ(And(R.R1, R1MID)) = maj
            \/ /\ l = 2
               /\ NZ(And(R.R2, R2MID)) = maj
            \/ /\ l = 3
               /\ NZ(And(R.R3, R3MID)) = maj}

\* the majority is taken again before each `if', from the registers as the
\* earlier assignments have left them
clock_remajor(R, allP, loaded) ==
    LET A == [R EXCEPT !.R1 = IF 1 \in clocked(R, allP)
                               THEN clockone(R.R1, R1MASK, R1TAPS) ELSE R.R1]
        B == [A EXCEPT !.R2 = IF 2 \in clocked(A, allP)
                               THEN clockone(A.R2, R2MASK, R2TAPS) ELSE A.R2]
    IN  [B EXCEPT !.R3 = IF 3 \in clocked(B, allP)
                          THEN clockone(B.R3, R3MASK, R3TAPS) ELSE B.R3]

clock(R, allP, loaded) ==
    LET c == clocked(R, allP)
    IN  [R1 |-> IF 1 \in c THEN clockone(R.R1, R1MASK, R1TAPS) ELSE R.R1,
         R2 |-> IF 2 \in c THEN clockone(R.R2, R2MASK, R2TAPS) ELSE R.R2,
         R3 |-> IF 3 \in c THEN clockone(R.R3, R3MASK, R3TAPS) ELSE R.R3]

getbit(R) ==
    And(Xor(Xor(Shr(R.R1, 18), Shr(R.R2, 21)), Shr(R.R3, 22)), {0})

\* a call of getbit: the bit it returns and the registers it leaves
getbitCall_clocking(R) == [bit |-> getbit(R), R |-> clock(R, 0, 0)]

getbitCall(R) == [bit |-> getbit(R), R |-> R]

\* R1 = R2 = R3 = 0
zeroRegs_skip(R) == R

zeroRegs(R) == [R1 |-> {}, R2 |-> {}, R3 |-> {}]

RECURSIVE load_offByOne(_, _, _, _, _)
load_offByOne(reg, key, shift, size, i) ==
    IF size - i <= 0 THEN reg
    ELSE IF size - i = 1
    THEN LET bitkey == And(Shr(key, shift - i), {0})
         IN  Xor(Shl(reg, 1), bitkey)
    ELSE LET mid == (i + size) \div 2
             r == load_offByOne(reg, key, shift, mid, i)
         IN  IF Cardinality(r) <= WordBits
             THEN load_offByOne(r, key, shift, size, mid)
             ELSE r

\* one of the three loading loops of keysetup: its iterations i, i + 1, ...,
\* size - 1 in order.  The index range is split in halves to keep the
\* evaluation shallow, and the test on Cardinality(r), true of every word,
\* makes the register after the first half a value before the second starts.
RECURSIVE load(_, _, _, _, _)
load(reg, key, shift, size, i) ==
    IF size - i <= 0 THEN reg
    ELSE IF size - i = 1
    THEN LET bitkey == And(Shr(key, shift - i - 1), {0})
         IN  Xor(Shl(reg, 1), bitkey)
    ELSE LET mid == (i + size) \div 2
             r == load(reg, key, shift, mid, i)
         IN  IF Cardinality(r) <= WordBits
             THEN load(r, key, shift, size, mid)
             ELSE r

keysetup_mixframe(R, key, frame) ==
    LET Z == zeroRegs(R)
    IN  [R1 |-> Xor(load(Z.R1, key, R1SHIFT, R1SIZE, 0), And(frame, R1MASK)),
         R2 |-> load(Z.R2, key, R2SHIFT, R2SIZE, 0),
         R3 |-> load(Z.R3, key, R3SHIFT, R3SIZE, 0)]

keysetup(R, key, frame) ==
    LET Z == zeroRegs(R)
    IN  [R1 |-> load(Z.R1, key, R1SHIFT, R1SIZE, 0),
         R2 |-> load(Z.R2, key, R2SHIFT, R2SIZE, 0),
         R3 |-> load(Z.R3, key, R3SHIFT, R3SIZE, 0)]

\* ------------------------------------------------------------ generation --
\* one iteration of the loop of run without the packing: the bit of the
\* current state is emitted (printed), then the registers are clocked
clockEmit(g) ==
    LET R == clock(g.R, 0, 0)
    IN  [R |-> R,
         out |-> Append(g.out, BitVal(getbit(R))),
         advs |-> Append(g.advs, clocked(g.R, 0)),
         clk |-> g.clk + 1]

emitClock(g) ==
    LET c == getbitCall(g.R)
    IN  [R |-> clock(c.R, 0, 0),
         out |-> Append(g.out, BitVal(c.bit)),
         advs |-> Append(g.advs, clocked(c.R, 0)),
         clk |-> g.clk + 1]

\* the iterations lo <= i < hi of the loop of run, in order, without the
\* packing; the index range is split in halves to keep the evaluation shallow
RECURSIVE iterate(_, _, _)
iterate(g, lo, hi) ==
    IF hi - lo <= 0 THEN g
    ELSE IF hi - lo = 1 THEN emitClock(g)
    ELSE LET mid == (lo + hi) \div 2
             h == iterate(g, lo, mid)
         IN  IF h.clk >= 0 THEN iterate(h, mid, hi) ELSE h

\* for (i = 0; i < n; i++): the loop of run, its bound (6 in run) as n
genLoop_le(g, i, n) == iterate(g, i, n + 1)

genLoop_noLastClock(g, i, n) ==
    IF i < n
    THEN LET h == iterate(g, i, n - 1)
         IN  [h EXCEPT !.out = Append(h.out, BitVal(getbit(h.R)))]
    ELSE g

genLoop(g, i, n) == iterate(g, i, n)

\* the start state is evaluated (its clock count is 0) before the loop starts
generate(R, n) ==
    LET g == [R |-> R, out |-> <<>>, advs |-> <<>>, clk |-> 0]
    IN  IF g.clk = 0 THEN genLoop(g, 0, n) ELSE g

\* a write of byte i of a buffer, by the zeroing or by the packing loop
Write(buf, i, by) == [buf |-> buf, i |-> i, by |-> by]

RECURSIVE zeroLoop_lt(_, _)
zeroLoop_lt(b, i) ==
    IF i < ZeroLast
    THEN LET n == [AtoB |-> [b.AtoB EXCEPT ![i] = {}],
                   BtoA |-> [b.BtoA EXCEPT ![i] = {}],
                   w |-> b.w \o <<Write("BtoA", i, "zero"),
                                  Write("AtoB", i, "zero")>>]
         IN  IF Len(n.w) > 0 THEN zeroLoop_lt(n, i + 1) ELSE b
    ELSE b

\* run: the zeroing loop, from index i on; AtoB[i] = BtoA[i] = 0 assigns
\* BtoA[i] first.  The test on Len(n.w), always true, makes the buffers
\* values before the next iteration starts.
RECURSIVE zeroLoop(_, _)
zeroLoop(b, i) ==
    IF i <= ZeroLast
    THEN LET n == [AtoB |-> [b.AtoB EXCEPT ![i] = {}],
                   BtoA |-> [b.BtoA EXCEPT ![i] = {}],
                   w |-> b.w \o <<Write("BtoA", i, "zero"),
                                  Write("AtoB", i, "zero")>>]
         IN  IF Len(n.w) > 0 THEN zeroLoop(n, i + 1) ELSE b
    ELSE b

runBody_lsbFirst(st, i) ==
    LET p == getbitCall(st.R)
        q == getbitCall(p.R)
    IN  [R |-> clock(q.R, 0, 0),
         out |-> Append(st.out, BitVal(p.bit)),
         advs |-> Append(st.advs, clocked(q.R, 0)),
         clk |-> st.clk + 1,
         AtoB |-> [st.AtoB EXCEPT
                     ![i \div 8] = ToByte(Or(@, Shl(q.bit, i % 8)))],
         BtoA |-> st.BtoA,
         w |-> Append(st.w, Write("AtoB", i \div 8, "pack"))]

\* run: one iteration of the generating loop: getbit is called for the
\* printed bit (p) and again for the packed bit (q), then clock
runBody(st, i) ==
    LET p == getbitCall(st.R)
        q == getbitCall(p.R)
    IN  [R |-> clock(q.R, 0, 0),
         out |-> Append(st.out, BitVal(p.bit)),
         advs |-> Append(st.advs, clocked(q.R, 0)),
         clk |-> st.clk + 1,
         AtoB |-> [st.AtoB EXCEPT
                     ![i \div 8] = ToByte(Or(@, Shl(q.bit, 7 - (i % 8))))],
         BtoA |-> st.BtoA,
         w |-> Append(st.w, Write("AtoB", i \div 8, "pack"))]

\* run: the generating loop, from i on; iteration i is evaluated (its clock
\* count is i + 1) before the next one starts
RECURSIVE runLoop(_, _)
runLoop(st, i) ==
    IF i < RunBits
    THEN LET h == runBody(st, i)
         IN  IF h.clk > i THEN runLoop(h, i + 1) ELSE h
    ELSE st

\* the zeroed buffers are evaluated (clock count 0) before the loop starts
run(R, A, B) ==
    LET z == zeroLoop([AtoB |-> A, BtoA |-> B, w |-> <<>>], 0)
        st == [R |-> R, out |-> <<>>, advs |-> <<>>, clk |-> 0,
               AtoB |-> z.AtoB, BtoA |-> z.BtoA, w |-> z.w]
    IN  IF st.clk = 0 THEN runLoop(st, 0) ELSE st

\* ----------------------------------------------------------------- state --
VARIABLES
    R1, R2, R3,     \* the three shift registers (globals)
    AtoB, BtoA,     \* the two keystream buffers of test
    writes,         \* the buffer bytes the last run has written, in order
    out,            \* the bits emitted by the last run or generation
    lastOp,         \* the last operation called
    key, frame,     \* the arguments of the last keysetup
    allP,           \* the first argument of the last clock
    advs,           \* the lanes advanced by each clock call of the last operation
    pre,            \* the registers before the last operation
    len,            \* the number of bits asked of the last generation
    nclk,           \* the clock steps taken since the last keysetup
    prev,           \* the operation before the last: its name, pre, len, out
    nops,           \* the number of operations called
    px, pr          \* the argument and the result of a call of parity

vars == <<R1, R2, R3, AtoB, BtoA, writes, out, lastOp, key, frame, allP, advs, pre,
          len, nclk, prev, nops, px, pr>>

Regs == [R1 |-> R1, R2 |-> R2, R3 |-> R3]
ZeroRegs == [R1 |-> {}, R2 |-> {}, R3 |-> {}]
Junk == { {}, 0 .. 7 }

InitCommon(j) ==
    /\ R1 = {}
    /\ R2 = {}
    /\ R3 = {}
    /\ AtoB = [i \in 0 .. (BufLen - 1) |-> j]
    /\ BtoA = [i \in 0 .. (BufLen - 1) |-> j]
    /\ writes = <<>>
    /\ out = <<>>
    /\ lastOp = "init"
    /\ key = {}
    /\ frame = {}
    /\ allP = 0
    /\ advs = <<>>
    /\ pre = ZeroRegs
    /\ len = 0
    /\ nclk = 0
    /\ prev = [op |-> "none", pre |-> ZeroRegs, len |-> 0, out |-> <<>>]
    /\ nops = 0
    /\ pr = 0

\* the registers are zero-initialised globals; the buffers of test are not
\* initialised
Init ==
    /\ \E j \in Junk : InitCommon(j)
    /\ px = {}

Remember ==
    /\ prev' = [op |-> lastOp, pre |-> pre, len |-> len, out |-> out]
    /\ pre' = Regs
    /\ nops' = nops + 1

Keysetup(k, f) ==
    /\ LET S == keysetup(Regs, k, f)
       IN  /\ R1' = S.R1
           /\ R2' = S.R2
           /\ R3' = S.R3
    /\ key' = k
    /\ frame' = f
    /\ lastOp' = "keysetup"
    /\ nclk' = 0
    /\ out' = <<>>
    /\ len' = 0
    /\ Remember
    /\ advs' = <<>>
    /\ UNCHANGED <<AtoB, BtoA, writes, allP, px, pr>>

Clock(a) ==
    /\ LET S == clock(Regs, a, 0)
       IN  /\ R1' = S.R1
           /\ R2' = S.R2
           /\ R3' = S.R3
    /\ advs' = <<clocked(Regs, a)>>
    /\ allP' = a
    /\ lastOp' = "clock"
    /\ nclk' = nclk + 1
    /\ out' = <<>>
    /\ len' = 0
    /\ Remember
    /\ UNCHANGED <<AtoB, BtoA, writes, key, frame, px, pr>>

Run ==
    /\ LET S == run(Regs, AtoB, BtoA)
       IN  /\ R1' = S.R.R1
           /\ R2' = S.R.R2
           /\ R3' = S.R.R3
           /\ AtoB' = S.AtoB
           /\ BtoA' = S.BtoA
           /\ writes' = S.w
           /\ out' = S.out
           /\ advs' = S.advs
           /\ nclk' = nclk + S.clk
           /\ len' = Len(S.out)
    /\ lastOp' = "run"
    /\ Remember
    /\ UNCHANGED <<key, frame, allP, px, pr>>

Generate(n) ==
    /\ LET S == generate(Regs, n)
       IN  /\ R1' = S.R.R1
           /\ R2' = S.R.R2
           /\ R3' = S.R.R3
           /\ out' = S.out
           /\ advs' = S.advs
           /\ nclk' = nclk + S.clk
    /\ len' = n
    /\ lastOp' = "generate"
    /\ Remember
    /\ UNCHANGED <<AtoB, BtoA, writes, key, frame, allP, px, pr>>

Getbit ==
    /\ LET c == getbitCall(Regs)
       IN  /\ R1' = c.R.R1
           /\ R2' = c.R.R2
           /\ R3' = c.R.R3
           /\ out' = <<BitVal(c.bit)>>
    /\ lastOp' = "getbit"
    /\ advs' = <<>>
    /\ len' = 0
    /\ Remember
    /\ UNCHANGED <<AtoB, BtoA, writes, key, frame, allP, nclk, px, pr>>

Parity ==
    /\ lastOp = "init"
    /\ pr' = BitVal(parity(px))
    /\ lastOp' = "parity"
    /\ UNCHANGED <<R1, R2, R3, AtoB, BtoA, writes, out, key, frame, allP, advs, pre,
                   len, nclk, prev, nops, px>>

\* test calls keysetup, then run; clock, run and getbit may be called again
Next ==
    \/ /\ lastOp = "init"
       /\ \E k \in Keys, f \in Frames : Keysetup(k, f)
    \/ /\ nops < MaxOps
       /\ lastOp # "init"
       /\ \E a \in {0, 1} : Clock(a)
    \/ /\ nops < MaxOps
       /\ lastOp # "init"
       /\ Run
    \/ /\ nops < MaxOps
       /\ lastOp # "init"
       /\ Getbit

Spec == Init /\ [][Next]_vars

\* key setup and generation of n bits, the bound of the loop of run as input;
\* keysetup may be called again on the registers a generation has left
InitGen ==
    /\ InitCommon({})
    /\ px = {}

NextGen ==
    \/ /\ nops < MaxGenOps
       /\ \E k \in GenKeys, f \in Frames : Keysetup(k, f)
    \/ /\ nops < MaxGenOps
       /\ lastOp # "init"
       /\ \E n \in GenLens : Generate(n)

SpecGen == InitGen /\ [][NextGen]_vars

\* parity applied to a 32-bit word
InitParity ==
    /\ InitCommon({})
    /\ px \in ParityInputs

NextParity == Parity

SpecParity == InitParity /\ [][NextParity]_vars

\* ---------------------------------------------------------------- claims --
\* every 1 bit of w is below position n, that is w < 2^n
Below(w, n) == \A b \in w : b < n

\* bit b of w as 0 or 1
BitOf(w, b) == IF b \in w THEN 1 ELSE 0

\* the states s, clock(s), clock(clock(s)), ... up to hi clock steps with
\* allP = 0, appended to the sequence tr that ends with the state after lo steps
RECURSIVE Trajectory(_, _, _)
Trajectory(tr, lo, hi) ==
    IF hi - lo <= 0 THEN tr
    ELSE IF hi - lo = 1 THEN Append(tr, clock(tr[Len(tr)], 0, 0))
    ELSE LET mid == (lo + hi) \div 2
             h == Trajectory(tr, lo, mid)
         IN  IF Len(h) > 0 THEN Trajectory(h, mid, hi) ELSE h

\* C1: after keysetup and after any number of clock steps, forced or not,
\* R1 < 2^19, R2 < 2^22 and R3 < 2^23
C1_WidthInvariant ==
    /\ Below(R1, 19)
    /\ Below(R2, 22)
    /\ Below(R3, 23)

\* a clock step has shifted the top bit out of each of the three lanes
C1_Witness ==
    /\ lastOp = "clock"
    /\ advs = <<{1, 2, 3}>>
    /\ 18 \in pre.R1
    /\ 21 \in pre.R2
    /\ 22 \in pre.R3

\* C2: a clock with allP = 0, called directly or by run, advances at least
\* two of the three lanes
C2_MajorityClocking ==
    (lastOp \in {"clock", "run"} /\ (lastOp = "clock" => allP = 0))
        => \A i \in 1 .. Len(advs) : Cardinality(advs[i]) >= 2

\* a clock with allP = 0 has advanced exactly two lanes
C2_Witness ==
    /\ lastOp = "clock"
    /\ allP = 0
    /\ Cardinality(advs[1]) = 2

C4_FrameNotMixed ==
    /\ lastOp = "keysetup" =>
          \A f2 \in Frames \cup {{}} : keysetup(pre, key, f2) = Regs
    /\ (lastOp = "generate" /\ prev.op = "keysetup") =>
          \A f2 \in Frames \cup {{}} :
              generate(keysetup(prev.pre, key, f2), len).out = out

\* 114 bits have been generated after keysetup with the key and frame of test
C4_Witness ==
    /\ lastOp = "generate"
    /\ prev.op = "keysetup"
    /\ key = TestKey
    /\ frame = TestFrame
    /\ len = 114
    /\ Len(out) = 114

C7_EmitBeforeClock ==
    lastOp = "generate" =>
        LET tr == Trajectory(<<pre>>, 0, len)
        IN  /\ Len(out) = len
            /\ \A k \in 0 .. (len - 1) : out[k + 1] = BitVal(getbit(tr[k + 1]))
            /\ tr[len + 1] = Regs
            /\ (prev.op = "keysetup" /\ len >= 1) =>
                  out[1] = (BitOf(key, 63) + BitOf(key, 44) + BitOf(key, 22)) % 2

\* bits have been generated after keysetup, and the first one differs from
\* the output bit of the registers after the first clock step
C7_Witness ==
    /\ lastOp = "generate"
    /\ prev.op = "keysetup"
    /\ len = 114
    /\ out[1] # BitVal(getbit(clock(pre, 0, 0)))

\* C8: keysetup leaves registers that do not depend on what the registers
\* held before, so the bits generated after keysetup(key, frame) are those
\* generated after keysetup(key, frame) on zeroed registers
C8_Determinism ==
    /\ lastOp = "keysetup" => Regs = keysetup(ZeroRegs, key, frame)
    /\ (lastOp = "generate" /\ prev.op = "keysetup") =>
          out = generate(keysetup(ZeroRegs, key, frame), len).out

\* bits have been generated after a keysetup called on registers that an
\* earlier keysetup had filled
C8_Witness ==
    /\ lastOp = "generate"
    /\ prev.op = "keysetup"
    /\ prev.pre.R1 # {}
    /\ prev.pre.R2 # {}
    /\ prev.pre.R3 # {}
    /\ len = 114

\* bit j (0 or 1) of the keystream is stored in buffer b, MSB first
Stored(b, j, v) == BitOf(b[j \div 8], 7 - (j % 8)) = v

\* C9: when run returns after keysetup, 228 bits have been generated and 228
\* clock steps taken; the first 114 bits are in AtoB, the next 114 in BtoA
C9_Run228 ==
    (lastOp = "run" /\ prev.op = "keysetup") =>
        /\ Len(out) = 228
        /\ Len(advs) = 228
        /\ nclk = 228
        /\ \A j \in 0 .. 113 : Stored(AtoB, j, out[j + 1])
        /\ \A j \in 0 .. 113 : Stored(BtoA, j, out[114 + j + 1])

\* C10: parity(x) is the number of 1 bits of the 32-bit x modulo 2
C10_Parity ==
    lastOp = "parity" => pr = Cardinality(px) % 2

\* parity has been applied to the all-ones 32-bit word
C10_Witness ==
    /\ lastOp = "parity"
    /\ px = 0 .. 31
    /\ pr = 0

\* C11: after run, keystream bit i is in byte i \div 8 of AtoB at bit position
\* 7 - (i mod 8), and every other bit of AtoB and every bit of BtoA is 0
C11_Packing ==
    lastOp = "run" =>
        /\ \A j \in 0 .. (Len(out) - 1) : Stored(AtoB, j, out[j + 1])
        /\ \A x \in 0 .. (BufLen - 1) : \A b \in 0 .. 7 :
              (8 * x + (7 - b) >= Len(out)) => b \notin AtoB[x]
        /\ \A x \in 0 .. (BufLen - 1) : BtoA[x] = {}
        /\ \A x \in 0 .. (BufLen - 1) : AtoB[x] \subseteq 0 .. 7

\* run has packed a keystream with a 0 and a 1 among its bits
C11_Witness ==
    /\ lastOp = "run"
    /\ Len(out) = RunBits
    /\ \E i, j \in 1 .. Len(out) : out[i] = 1 /\ out[j] = 0
    /\ AtoB[0] # {}

\* the control bits of the three lanes: bit 8 of R1, bit 10 of R2 and of R3
Ctl(R) == <<BitOf(R.R1, 8), BitOf(R.R2, 10), BitOf(R.R3, 10)>>

\* the lanes whose control bit equals the majority of the three control bits
Sel(R) ==
    LET c == Ctl(R)
        m == IF c[1] + c[2] + c[3] >= 2 THEN 1 ELSE 0
    IN  {l \in 1 .. 3 : c[l] = m}

\* the lane value v of width W shifted left by one within the width, with
\* bit 0 the XOR of the bits of v at the positions taps
Advance(v, W, taps) ==
    {b + 1 : b \in {c \in v : c + 1 < W}}
        \cup (IF Cardinality(v \cap taps) % 2 = 1 THEN {0} ELSE {})

Lane(R, l) == IF l = 1 THEN R.R1 ELSE IF l = 2 THEN R.R2 ELSE R.R3

Advanced(R, l) ==
    IF l = 1 THEN Advance(R.R1, 19, {18, 17, 16, 13})
    ELSE IF l = 2 THEN Advance(R.R2, 22, {21, 20})
    ELSE Advance(R.R3, 23, {22, 21, 20, 7})

\* C12: a clock with allP = 0, called directly or by run, advances lane i
\* exactly when its control bit equals the majority of the three control
\* bits: all three lanes when the bits are equal, otherwise the two lanes
\* that agree, leaving out the lane in the minority
C12_SelectionRule ==
    (lastOp \in {"clock", "run"} /\ (lastOp = "clock" => allP = 0)) =>
        LET tr == Trajectory(<<pre>>, 0, Len(advs))
        IN  \A i \in 1 .. Len(advs) :
                LET c == Ctl(tr[i])
                IN  /\ advs[i] = Sel(tr[i])
                    /\ (advs[i] = {1, 2, 3}) <=> (c[1] = c[2] /\ c[2] = c[3])
                    /\ ~(c[1] = c[2] /\ c[2] = c[3]) =>
                          /\ Cardinality(advs[i]) = 2
                          /\ \A l \in {1, 2, 3} \ advs[i] :
                                \A o \in advs[i] : c[l] # c[o]

\* a clock with allP = 0 has left out lane 2, whose bits 10 and 11 differ
C12_Witness ==
    /\ lastOp = "clock"
    /\ allP = 0
    /\ advs = <<{1, 3}>>
    /\ BitOf(pre.R2, 10) # BitOf(pre.R2, 11)

\* C13: a lane that clock selects becomes its value shifted left by one
\* within its width, with bit 0 the XOR of its bits 18,17,16,13 (R1),
\* 21,20 (R2) or 22,21,20,7 (R3)
C13_LaneAdvance ==
    lastOp = "clock" =>
        /\ \A l \in advs[1] : Lane(Regs, l) = Advanced(pre, l)
        /\ \A l \in advs[1] : \A b \in Lane(pre, l) :
              (b + 1 < (IF l = 1 THEN 19 ELSE IF l = 2 THEN 22 ELSE 23))
                  => (b + 1) \in Lane(Regs, l)

\* a clock has advanced all three lanes; R3 had its tap bit 7 set and not its
\* bit 8, R1 lost its top bit and got a feedback bit 1
C13_Witness ==
    /\ lastOp = "clock"
    /\ advs = <<{1, 2, 3}>>
    /\ 7 \in pre.R3
    /\ 8 \notin pre.R3
    /\ 18 \in pre.R1
    /\ 0 \in R1

\* C14: in a clock with allP = 0 a lane whose control bit differs from the
\* majority keeps its value, and which lanes advance is decided by the
\* control bits as they were before the call
C14_UnselectedUntouched ==
    (lastOp = "clock" /\ allP = 0) =>
        \A l \in 1 .. 3 :
            Lane(Regs, l) = IF l \in Sel(pre) THEN Advanced(pre, l)
                            ELSE Lane(pre, l)

\* a clock with allP = 0 has left one lane out; advancing would have changed
\* that lane, and the control bit of an advanced lane has changed
C14_Witness ==
    /\ lastOp = "clock"
    /\ allP = 0
    /\ \E l \in 1 .. 3 :
          /\ l \notin Sel(pre)
          /\ Advanced(pre, l) # Lane(pre, l)
    /\ Ctl(Regs) # Ctl(pre)

\* C16: a clock with allP = 1 advances all three lanes by one step each,
\* whatever their control bits are
C16_ForcedClocking ==
    (lastOp = "clock" /\ allP = 1) =>
        /\ advs = <<{1, 2, 3}>>
        /\ \A l \in 1 .. 3 : Lane(Regs, l) = Advanced(pre, l)

\* a clock with allP = 1 was called with control bits that are not equal
C16_Witness ==
    /\ lastOp = "clock"
    /\ allP = 1
    /\ Sel(pre) # {1, 2, 3}
    /\ \A l \in 1 .. 3 : Lane(Regs, l) # Lane(pre, l)

\* C17: after keysetup with key 0 the registers are 0, they stay 0 in every
\* clock step, forced or not, and every keystream bit is 0
C17_ZeroAbsorbing ==
    (lastOp # "init" /\ key = {}) =>
        /\ R1 = {}
        /\ R2 = {}
        /\ R3 = {}
        /\ \A i \in 1 .. Len(out) : out[i] = 0
        /\ lastOp = "run" => \A x \in 0 .. (BufLen - 1) : AtoB[x] = {}

\* after keysetup with key 0 both kinds of clock and run have been called
C17_Witness ==
    /\ key = {}
    /\ lastOp = "run"
    /\ Len(out) = RunBits
    /\ prev.op = "clock"
    /\ allP = 1
    /\ nclk >= RunBits + 2

\* C15: getbit returns bit 18 of R1 XOR bit 21 of R2 XOR bit 22 of R3 and
\* leaves the registers as they were, so a second call returns the same bit,
\* and the two calls in each iteration of run give the same bit and the
\* keystream of one call per iteration
C15_GetbitReadOnly ==
    /\ lastOp = "getbit" =>
          /\ out = <<(BitOf(pre.R1, 18) + BitOf(pre.R2, 21) + BitOf(pre.R3, 22)) % 2>>
          /\ Regs = pre
          /\ prev.op = "getbit" => out = prev.out
    /\ lastOp = "run" =>
          /\ \A j \in 0 .. (Len(out) - 1) : Stored(AtoB, j, out[j + 1])
          /\ out = generate(pre, RunBits).out
          /\ Regs = Trajectory(<<pre>>, 0, RunBits)[RunBits + 1]

\* getbit has been called twice in a row and has returned 1, on registers
\* that a clock step changes
C15_Witness ==
    /\ lastOp = "getbit"
    /\ prev.op = "getbit"
    /\ out = <<1>>
    /\ clock(Regs, 0, 0) # Regs

\* the positions in writes of the writes made by the loop `by'
WritesBy(by) == {k \in 1 .. Len(writes) : writes[k].by = by}

\* C18: every byte index run writes, zeroing or packing, is in 0..14, inside
\* the 15-byte buffers of test; the zeroing loop clears exactly bytes 0..14 of
\* both buffers, and does so before any keystream bit is stored
C18_BufferBounds ==
    lastOp = "run" =>
        /\ BufLen = 15
        /\ \A k \in 1 .. Len(writes) :
              /\ writes[k].i \in 0 .. 14
              /\ writes[k].i \in DOMAIN AtoB
              /\ writes[k].i \in DOMAIN BtoA
        /\ \A u \in {"AtoB", "BtoA"} :
              {writes[k].i : k \in {z \in WritesBy("zero") : writes[z].buf = u}}
                  = 0 .. 14
        /\ Cardinality(WritesBy("zero")) = 2 * 15
        /\ Cardinality(WritesBy("pack")) = Len(out)
        /\ \A z \in WritesBy("zero") : \A k \in WritesBy("pack") : z < k

\* a run right after keysetup has zeroed the last byte of both buffers and
\* has stored keystream bits
C18_Witness ==
    /\ lastOp = "run"
    /\ WritesBy("pack") # {}
    /\ WritesBy("zero") # {}
    /\ prev.op = "keysetup"
    /\ AtoB[14] = {}
    /\ BtoA[14] = {}

====
